---- MODULE Spec2Model ----
(***************************************************************************)
(* A model of eav/models/attribute.py (django-eav2): the Attribute model,  *)
(* its validated save, its enum validation and the Value upsert/delete     *)
(* protocol Attribute.save_value, run by one caller (Spec, SpecFail, SpecAttr)*)
(* or by several callers whose store operations interleave (SpecConc,      *)
(* SpecOrder); Attribute.save by interleaved savers (SpecSave) and the     *)
(* read-only operations on one attribute per datatype (SpecCatalogue).     *)
(*                                                                         *)
(* Python values are written as strings: None is "None", the empty string  *)
(* is "", every other payload is its repr ("0", "False", "178").           *)
(***************************************************************************)
EXTENDS Integers, FiniteSets, Sequences, TLC

\* ------------------------------------------------------------- bounds ----
\* Store writes (create, save, delete of a Value row) in one behaviour.
MaxClock == 4
\* Attribute rows the store may hold.
MaxAttrs == 2

\* -------------------------------------------------------- the universe ----
PyNone == "None"

TYPE_TEXT == "text"
TYPE_FLOAT == "float"
TYPE_INT == "int"
TYPE_DATE == "date"
TYPE_BOOLEAN == "bool"
TYPE_OBJECT == "object"
TYPE_ENUM == "enum"
TYPE_JSON == "json"
TYPE_CSV == "csv"

DATATYPE_CHOICES ==
    {TYPE_TEXT, TYPE_DATE, TYPE_FLOAT, TYPE_INT, TYPE_BOOLEAN, TYPE_OBJECT,
     TYPE_ENUM, TYPE_JSON, TYPE_CSV}

\* The callers of save_value.
Procs == {"p1", "p2", "p3"}
\* The one caller of the sequential specification.
Main == "p1"

\* Host records: a content type and a primary key.
Entities ==
    {[ct |-> "patient", pk |-> "1"],
     [ct |-> "patient", pk |-> "2"],
     [ct |-> "doctor", pk |-> "1"],
     [ct |-> "doctor", pk |-> "u1"]}
\* The primary keys that are integers; the others are UUIDs.
IntKeys == {"1", "2"}
\* The host records the concurrent callers write to.
ConcEntities == {[ct |-> "patient", pk |-> "1"]}
\* The attribute and the values the concurrent callers write.
ConcAttrs == {1}
ConcValues == {PyNone, "0", "178"}

\* The values handed to save_value: None, '', the falsy payloads 0 and False,
\* and one more payload.
Values == {PyNone, "", "0", "False", "178"}

\* What Attribute.save is called with.
Names == {"Height", "height"}
Slugs == {"", "fever"}
SaveDatatypes == {TYPE_INT, TYPE_ENUM}
EnumGroups == {"ynu"}

\* Reference data: the EnumValue rows (pk -> label) and the groups' members.
EnumValueRows == {[pk |-> "ev1", value |-> "yes"],
                  [pk |-> "ev2", value |-> "no"],
                  [pk |-> "ev3", value |-> "unknown"],
                  [pk |-> "ev4", value |-> "maybe"]}
EnumGroupValues(g) == IF g = "ynu" THEN {"ev1", "ev2", "ev3"} ELSE {}

VARIABLES
    attrs,      \* the Attribute rows of the store
    attrCall,   \* the last Attribute.save or validate_value: its arguments and how it ended
    values,     \* the Value rows of the store
    nextId,     \* the next auto-increment primary key of a Value row
    clock,      \* the store's write clock (the rows' modified timestamps)
    enforce,    \* whether the Value table carries the identity constraint
    pc,         \* where each caller is in save_value
    frame,      \* each caller's arguments and its in-memory value_obj
    result,     \* how each caller's last call ended
    disturbed,  \* whether a row of the caller's identity was deleted since its call failed
    saving,     \* each saver's Attribute.save in flight: between full_clean and the write
    dispatch,   \* what get_validators returned for each datatype it was asked about
    tails,      \* per caller, the outcome of its last completed save_value that no later completed call followed
    before      \* per caller inside save_value, the callers whose last call had ended when it began

vars == <<attrs, attrCall, values, nextId, clock, enforce, pc, frame, result,
          disturbed, saving, dispatch, tails, before>>

attrVars == <<attrs, attrCall, saving, dispatch>>
valueVars == <<values, nextId, clock>>
callVars == <<pc, frame, result, disturbed>>
\* The history kept for the order of completed calls.
orderVars == <<tails, before>>

\* ------------------------------------------------ Attribute.save_value ----
\* Only None counts as empty.
IsEmptyNoneOnly(value) == value = PyNone

\* Every falsy value counts as empty: "not value".
IsEmptyFalsy(value) == value \in {PyNone, "", "0", "False"}

\* Lines 329 and 334: value is None or value == ''
IsEmpty(value) == value = PyNone \/ value = ""

\* The Value field an entity's primary key is matched against.
get_entity_pk_type(entity) ==
    IF entity.pk \in IntKeys THEN "entity_id" ELSE "entity_uuid"

entity_filter(self, entity) ==
    [entity_ct |-> entity.ct, attribute |-> self,
     field |-> get_entity_pk_type(entity), pk |-> entity.pk]

\* The lookup without the content type.
RowMatchesAnyType(r, f) ==
    /\ r.attribute = f.attribute
    /\ r[f.field] = f.pk

\* The lookup hardcoded to one key column, whatever the host's key type.
RowMatchesOneColumn(r, f) ==
    /\ r.entity_ct = f.entity_ct
    /\ r.attribute = f.attribute
    /\ r.entity_uuid = f.pk

RowMatches(r, f) ==
    /\ r.entity_ct = f.entity_ct
    /\ r.attribute = f.attribute
    /\ r[f.field] = f.pk

\* self.value_set.get(**entity_filter): the rows the query selects.
value_set_get(rows, f) == {r \in rows : RowMatches(r, f)}

\* The row Value.objects.create(**entity_filter) inserts: no payload yet.
Value_objects_create(f) ==
    [id |-> nextId, attribute |-> f.attribute, entity_ct |-> f.entity_ct,
     entity_id |-> IF f.field = "entity_id" THEN f.pk ELSE PyNone,
     entity_uuid |-> IF f.field = "entity_uuid" THEN f.pk ELSE PyNone,
     value |-> PyNone, modified |-> clock + 1]

\* The store's uniqueness constraint on (attribute, entity_ct, entity pk):
\* inserting r would violate it.
IdentityConflict(rows, r) ==
    /\ enforce
    /\ \E s \in rows :
          /\ s.id # r.id
          /\ s.attribute = r.attribute
          /\ s.entity_ct = r.entity_ct
          /\ \/ r.entity_id # PyNone /\ s.entity_id = r.entity_id
             \/ r.entity_uuid # PyNone /\ s.entity_uuid = r.entity_uuid

\* Python's ==: False equals 0; every other pair of the values here is equal
\* only to itself.
PyEq(a, b) == a = b \/ {a, b} = {"0", "False"}

\* The comparison inverted.
NeedsWriteInverted(value, value_obj) == PyEq(value, value_obj.value)

\* The comparison dropped: every non-empty write saves.
NeedsWriteAlways(value, value_obj) == TRUE

\* Line 338: value != value_obj.value
NeedsWrite(value, value_obj) == ~PyEq(value, value_obj.value)

NoObj == [id |-> 0]
NoEntity == [ct |-> PyNone, pk |-> PyNone]
\* created: the key of the row the call inserted at line 332, kept when the
\* call fails; 0 when it inserted none.
NoFrame == [attr |-> 0, ent |-> NoEntity, value |-> PyNone, obj |-> NoObj,
            again |-> "no", created |-> 0]

\* The caller's call lost an insert race.
LostRace(p) == pc[p] = "failed" /\ result[p] = "IntegrityError"
\* The caller's identity is watched for deletes: from a lost race to the end
\* of the retry.
Tracking(p) == LostRace(p) \/ (pc[p] \in {"create", "act"} /\ frame[p].again = "retry")
SameIdentity(p, q) == frame[p].attr = frame[q].attr /\ frame[p].ent = frame[q].ent

\* How this call relates to the caller's previous one: the same arguments
\* after a completed call (repeat), after a lost race (retry), or neither.
Again(p, self, entity, value) ==
    IF frame[p].attr = self /\ frame[p].ent = entity /\ frame[p].value = value
    THEN (IF pc[p] = "done" THEN "repeat"
          ELSE IF LostRace(p) THEN "retry" ELSE "no")
    ELSE "no"

\* Lines 318-330: the call and its lookup.
save_value_get(p, self, entity, value) ==
    /\ pc[p] \in {"idle", "done", "failed"}
    /\ \E a \in attrs : a.id = self
    /\ LET f == entity_filter(self, entity)
           found == value_set_get(values, f)
           fr == [attr |-> self, ent |-> entity, value |-> value, obj |-> NoObj,
                  again |-> Again(p, self, entity, value), created |-> 0]
       IN  CASE Cardinality(found) > 1 ->
                  /\ pc' = [pc EXCEPT ![p] = "failed"]
                  /\ result' = [result EXCEPT ![p] = "MultipleObjectsReturned"]
                  /\ frame' = [frame EXCEPT ![p] = fr]
                  /\ disturbed' = [disturbed EXCEPT ![p] = FALSE]
             [] Cardinality(found) = 1 ->
                  /\ pc' = [pc EXCEPT ![p] = "act"]
                  /\ result' = [result EXCEPT ![p] = "none"]
                  /\ frame' = [frame EXCEPT ![p] =
                                  [fr EXCEPT !.obj = CHOOSE r \in found : TRUE]]
                  /\ disturbed' = [disturbed EXCEPT ![p] = @ /\ fr.again = "retry"]
             [] found = {} /\ IsEmpty(value) ->
                  /\ pc' = [pc EXCEPT ![p] = "done"]
                  /\ result' = [result EXCEPT ![p] = "ok"]
                  /\ frame' = [frame EXCEPT ![p] = fr]
                  /\ disturbed' = [disturbed EXCEPT ![p] = FALSE]
             [] OTHER ->
                  /\ pc' = [pc EXCEPT ![p] = "create"]
                  /\ result' = [result EXCEPT ![p] = "none"]
                  /\ frame' = [frame EXCEPT ![p] = fr]
                  /\ disturbed' = [disturbed EXCEPT ![p] = @ /\ fr.again = "retry"]
    /\ UNCHANGED <<attrVars, valueVars, enforce>>

\* The callers whose watched identity loses a row when p deletes its row.
Disturbs(p, deleted) ==
    [q \in Procs |->
        IF deleted /\ q # p /\ Tracking(q) /\ SameIdentity(p, q)
        THEN TRUE ELSE disturbed[q]]

\* Line 332: Value.objects.create(**entity_filter).
save_value_create(p) ==
    /\ pc[p] = "create"
    /\ LET r == Value_objects_create(entity_filter(frame[p].attr, frame[p].ent))
       IN  IF IdentityConflict(values, r)
           THEN /\ pc' = [pc EXCEPT ![p] = "failed"]
                /\ result' = [result EXCEPT ![p] = "IntegrityError"]
                /\ disturbed' = [disturbed EXCEPT ![p] = FALSE]
                /\ UNCHANGED <<frame, valueVars>>
           ELSE /\ clock < MaxClock
                /\ values' = values \cup {r}
                /\ nextId' = nextId + 1
                /\ clock' = clock + 1
                /\ frame' = [frame EXCEPT ![p].obj = r, ![p].created = r.id]
                /\ pc' = [pc EXCEPT ![p] = "act"]
                /\ UNCHANGED <<result, disturbed>>
    /\ UNCHANGED <<attrVars, enforce>>

\* Lines 334-340: delete the row, or set its payload and save it, or nothing.
save_value_act(p) ==
    /\ pc[p] = "act"
    /\ LET value == frame[p].value
           value_obj == frame[p].obj
           stored == {r \in values : r.id = value_obj.id}
           saved == [value_obj EXCEPT !.value = value, !.modified = clock + 1]
           Done == /\ pc' = [pc EXCEPT ![p] = "done"]
                   /\ result' = [result EXCEPT ![p] = "ok"]
                   /\ frame' = [frame EXCEPT ![p].obj = NoObj, ![p].created = 0]
       IN  IF IsEmpty(value)
           THEN \* value_obj.delete()
                /\ clock < MaxClock
                /\ values' = values \ stored
                /\ clock' = clock + 1
                /\ disturbed' = [Disturbs(p, stored # {}) EXCEPT ![p] = FALSE]
                /\ Done
                /\ UNCHANGED nextId
           ELSE IF NeedsWrite(value, value_obj)
           THEN \* value_obj.value = value; value_obj.save(): an UPDATE by
                \* primary key, or an INSERT when no row has that key
                IF stored = {} /\ IdentityConflict(values, saved)
                THEN /\ pc' = [pc EXCEPT ![p] = "failed"]
                     /\ result' = [result EXCEPT ![p] = "IntegrityError"]
                     /\ frame' = [frame EXCEPT ![p].obj = NoObj]
                     /\ disturbed' = [disturbed EXCEPT ![p] = FALSE]
                     /\ UNCHANGED valueVars
                ELSE /\ clock < MaxClock
                     /\ values' = (values \ stored) \cup {saved}
                     /\ clock' = clock + 1
                     /\ disturbed' = [disturbed EXCEPT ![p] = FALSE]
                     /\ Done
                     /\ UNCHANGED nextId
           ELSE /\ disturbed' = [disturbed EXCEPT ![p] = FALSE]
                /\ Done
                /\ UNCHANGED valueVars
    /\ UNCHANGED <<attrVars, enforce>>

\* Line 340: value_obj.save() raises (the store rejects or loses the write).
\* No handler and no transaction surround lines 326-340: the exception
\* leaves save_value and nothing the call did is undone.
save_value_act_error(p) ==
    /\ pc[p] = "act"
    /\ ~IsEmpty(frame[p].value)
    /\ NeedsWrite(frame[p].value, frame[p].obj)
    /\ pc' = [pc EXCEPT ![p] = "failed"]
    /\ result' = [result EXCEPT ![p] = "DatabaseError"]
    /\ frame' = [frame EXCEPT ![p].obj = NoObj]
    /\ disturbed' = [disturbed EXCEPT ![p] = FALSE]
    /\ UNCHANGED <<attrVars, valueVars, enforce>>

\* ------------------------------------------------------ Attribute.save ----
MsgEnumNeedsGroup == "You must set the choice group for multiple choice attributes"
MsgGroupOnlyEnum == "You can only assign a choice group to multiple choice attributes"
MsgDatatypeInUse == "You cannot change the datatype of an attribute that is already in use."
MsgSlugExists == "Attribute with this Slug already exists."

\* generate_slug(name): the slug of a name.
generate_slug(name) == IF name \in {"Height", "height"} THEN "height" ELSE name

\* Lines 272-273: the instance with its slug filled in when blank.
with_slug(inst) ==
    IF inst.slug = "" THEN [inst EXCEPT !.slug = generate_slug(inst.name)] ELSE inst

\* EavDatatypeField.validate, run by full_clean's clean_fields: the datatype
\* of a stored attribute that Value rows reference must not change.
clean_fields(inst) ==
    IF /\ inst.pk # 0
       /\ \E a \in attrs : a.id = inst.pk /\ a.datatype # inst.datatype
       /\ \E r \in values : r.attribute = inst.pk
    THEN {MsgDatatypeInUse} ELSE {}

\* clean without its second check.
clean_enum_only(inst) ==
    IF inst.datatype = TYPE_ENUM /\ inst.enum_group = PyNone
    THEN {MsgEnumNeedsGroup} ELSE {}

\* Lines 278-292: Attribute.clean.
clean(inst) ==
    IF inst.datatype = TYPE_ENUM /\ inst.enum_group = PyNone
    THEN {MsgEnumNeedsGroup}
    ELSE IF inst.datatype # TYPE_ENUM /\ inst.enum_group # PyNone
    THEN {MsgGroupOnlyEnum}
    ELSE {}

\* The slug of another stored attribute equals the instance's.
SlugTaken(rows, inst) == \E a \in rows : a.id # inst.pk /\ a.slug = inst.slug

\* full_clean called with validate_unique=False.
validate_unique_off(inst) == {}

\* full_clean's validate_unique: slug is declared unique=True (line 141).
validate_unique(inst) == IF SlugTaken(attrs, inst) THEN {MsgSlugExists} ELSE {}

\* Line 275: self.full_clean() collects the errors of its three parts.
full_clean(inst) == clean_fields(inst) \cup clean(inst) \cup validate_unique(inst)

\* Line 276: super().save(): UPDATE the row of the instance's pk, or INSERT.
persist(rows, inst) ==
    LET pk == IF inst.pk = 0 THEN Cardinality(rows) + 1 ELSE inst.pk
        row == [id |-> pk, name |-> inst.name, slug |-> inst.slug,
                datatype |-> inst.datatype, enum_group |-> inst.enum_group]
    IN  {a \in rows : a.id # pk} \cup {row}

\* save without its full_clean call.
save_unchecked(inst) ==
    LET slugged == with_slug(inst)
    IN  IF SlugTaken(attrs, slugged)
        THEN [kind |-> "IntegrityError", msgs |-> {}, rows |-> attrs]
        ELSE [kind |-> "ok", msgs |-> {}, rows |-> persist(attrs, slugged)]

\* save with super().save() called before full_clean.
save_persist_first(inst) ==
    LET slugged == with_slug(inst)
        errors == full_clean(slugged)
    IN  IF SlugTaken(attrs, slugged)
        THEN [kind |-> "IntegrityError", msgs |-> {}, rows |-> attrs]
        ELSE IF errors # {}
        THEN [kind |-> "ValidationError", msgs |-> errors,
              rows |-> persist(attrs, slugged)]
        ELSE [kind |-> "ok", msgs |-> {}, rows |-> persist(attrs, slugged)]

\* Lines 267-276: how Attribute.save ends and the rows it leaves.
save(inst) ==
    LET slugged == with_slug(inst)
        errors == full_clean(slugged)
    IN  IF errors # {}
        THEN [kind |-> "ValidationError", msgs |-> errors, rows |-> attrs]
        ELSE IF SlugTaken(attrs, slugged)
        THEN [kind |-> "IntegrityError", msgs |-> {}, rows |-> attrs]
        ELSE [kind |-> "ok", msgs |-> {}, rows |-> persist(attrs, slugged)]

NoInst == [pk |-> 0, name |-> "", slug |-> "", datatype |-> "", enum_group |-> PyNone]
NoValue == [kind |-> PyNone, pk |-> PyNone, value |-> PyNone]
\* What a call returned or did besides ending: get_choices' result,
\* get_validators' list, the validators validate_value invoked and whether it
\* ran the membership check.
NoRet == [choices |-> [none |-> TRUE, rows |-> {}], validators |-> <<>>,
          ran |-> <<>>, checked |-> FALSE]
NoAttrCall == [op |-> "none", inst |-> NoInst, value |-> NoValue, kind |-> "none",
               msgs |-> {}, ret |-> NoRet]

\* The instances Attribute.save is called on: new ones and stored ones, edited.
Instances ==
    [pk : {0} \cup {a.id : a \in attrs}, name : Names, slug : Slugs,
     datatype : SaveDatatypes, enum_group : {PyNone} \cup EnumGroups]

\* No caller is inside save_value.
Quiet == \A p \in Procs : pc[p] \in {"idle", "done", "failed"}

Attribute_save(inst) ==
    /\ inst.pk = 0 => Cardinality(attrs) < MaxAttrs
    /\ LET out == save(inst)
       IN  /\ attrs' = out.rows
           /\ attrCall' = [op |-> "save", inst |-> inst, value |-> NoValue,
                           kind |-> out.kind, msgs |-> out.msgs, ret |-> NoRet]
    /\ UNCHANGED <<valueVars, enforce, callVars, saving, dispatch>>

\* Attribute.save by savers whose steps interleave: full_clean, then the write.
Savers == {"s1", "s2"}
NoSaving == [pc |-> "idle", inst |-> NoInst, slugged |-> NoInst, kind |-> "none",
             msgs |-> {}]

\* The instances the interleaving savers save: new and stored ones, of one
\* datatype, with and without a choice group.
SaverInstances == {inst \in Instances : inst.datatype = TYPE_INT}

\* Lines 272-275: the slug is filled in and full_clean runs.
Attribute_save_clean(s, inst) ==
    /\ saving[s].pc # "cleaned"
    /\ LET slugged == with_slug(inst)
           errors == full_clean(slugged)
       IN  saving' = [saving EXCEPT ![s] =
                        IF errors # {}
                        THEN [pc |-> "done", inst |-> inst, slugged |-> slugged,
                              kind |-> "ValidationError", msgs |-> errors]
                        ELSE [pc |-> "cleaned", inst |-> inst, slugged |-> slugged,
                              kind |-> "none", msgs |-> {}]]
    /\ UNCHANGED <<attrs, attrCall, dispatch, valueVars, enforce, callVars>>

\* Line 276: super().save() writes the row; the store checks slug's
\* uniqueness again.
Attribute_save_write(s) ==
    /\ saving[s].pc = "cleaned"
    /\ LET slugged == saving[s].slugged
       IN  IF SlugTaken(attrs, slugged)
           THEN /\ saving' = [saving EXCEPT ![s].pc = "done",
                                            ![s].kind = "IntegrityError"]
                /\ attrs' = attrs
           ELSE /\ slugged.pk = 0 => Cardinality(attrs) < MaxAttrs
                /\ saving' = [saving EXCEPT ![s].pc = "done", ![s].kind = "ok"]
                /\ attrs' = persist(attrs, slugged)
    /\ UNCHANGED <<attrCall, dispatch, valueVars, enforce, callVars>>

\* ---------------------------------------------- Attribute.validate_value ----
\* What validate_value is handed: a label, or a stored EnumValue.
Label(s) == [kind |-> "str", pk |-> PyNone, value |-> s]
EnumValueRef(ev) == [kind |-> "EnumValue", pk |-> ev.pk, value |-> ev.value]
XValues == {Label(s) : s \in {"yes", "maybe"}}
           \cup {EnumValueRef(ev) : ev \in {e \in EnumValueRows : e.pk \in {"ev1", "ev4"}}}

DATATYPE_VALIDATORS ==
    [d \in DATATYPE_CHOICES |->
        CASE d = TYPE_TEXT -> "validate_text"
          [] d = TYPE_FLOAT -> "validate_float"
          [] d = TYPE_INT -> "validate_int"
          [] d = TYPE_DATE -> "validate_date"
          [] d = TYPE_BOOLEAN -> "validate_bool"
          [] d = TYPE_OBJECT -> "validate_object"
          [] d = TYPE_ENUM -> "validate_enum"
          [] d = TYPE_JSON -> "validate_json"
          [] d = TYPE_CSV -> "validate_csv"]

\* The table with the csv entry pointing at the json validator.
get_validators_shared(self) ==
    <<DATATYPE_VALIDATORS[IF self.datatype = TYPE_CSV THEN TYPE_JSON
                          ELSE self.datatype]>>

\* Lines 226-248.
get_validators(self) == <<DATATYPE_VALIDATORS[self.datatype]>>

\* The validators of eav.validators: whether the validator accepts the value.
Accepts(validator, x) ==
    CASE validator = "validate_enum" -> x.kind \in {"str", "EnumValue"}
      [] validator = "validate_text" -> x.kind = "str"
      [] validator = "validate_int" -> x.kind = "str" /\ x.value \in {"0", "178"}
      [] OTHER -> x.kind = "str"

\* self.enum_group.values.filter(value=value).exists()
GroupHasValue(group, label) ==
    \E ev \in EnumValueRows : ev.pk \in EnumGroupValues(group) /\ ev.value = label

\* The isinstance unwrapping left out: the EnumValue itself is looked up.
EnumLabelRaw(x) == IF x.kind = "EnumValue" THEN x.pk ELSE x.value

\* Lines 259-260: an EnumValue stands for its label (value.value); a label
\* for itself.
EnumLabel(x) == IF x.kind = "EnumValue" THEN x.value ELSE x.value

\* Lines 250-265: how validate_value ends, the validators it invoked (in
\* order, up to the first that raised) and whether the membership check ran.
validate_value(self, x) ==
    LET validators == get_validators(self)
        failing == {i \in 1..Len(validators) : ~Accepts(validators[i], x)}
        first == CHOOSE i \in failing : \A j \in failing : i <= j
    IN  IF failing # {}
        THEN [kind |-> "ValidationError", msgs |-> {<<"validator", validators>>},
              ran |-> SubSeq(validators, 1, first), checked |-> FALSE]
        ELSE IF self.datatype = TYPE_ENUM
        THEN (IF ~GroupHasValue(self.enum_group, EnumLabel(x))
              THEN [kind |-> "ValidationError",
                    msgs |-> {<<EnumLabel(x), " is not a valid choice for ", self.name>>},
                    ran |-> validators, checked |-> TRUE]
              ELSE [kind |-> "ok", msgs |-> {}, ran |-> validators, checked |-> TRUE])
        ELSE [kind |-> "ok", msgs |-> {}, ran |-> validators, checked |-> FALSE]

\* The stored row as the instance validate_value is called on.
Stored(a) == [pk |-> a.id, name |-> a.name, slug |-> a.slug,
              datatype |-> a.datatype, enum_group |-> a.enum_group]

Attribute_validate_value(self, x) ==
    /\ \E a \in attrs : Stored(a) = self
    /\ LET out == validate_value(self, x)
       IN  attrCall' = [op |-> "validate_value", inst |-> self, value |-> x,
                        kind |-> out.kind, msgs |-> out.msgs,
                        ret |-> [NoRet EXCEPT !.ran = out.ran,
                                              !.checked = out.checked]]
    /\ UNCHANGED <<attrs, valueVars, enforce, callVars, saving, dispatch>>

Attribute_get_validators(self) ==
    /\ \E a \in attrs : Stored(a) = self
    /\ attrCall' = [op |-> "get_validators", inst |-> self, value |-> NoValue,
                    kind |-> "ok", msgs |-> {},
                    ret |-> [NoRet EXCEPT !.validators = get_validators(self)]]
    /\ dispatch' = [dispatch EXCEPT ![self.datatype] = get_validators(self)]
    /\ UNCHANGED <<attrs, valueVars, enforce, callVars, saving>>

\* ------------------------------------------------- Attribute.get_choices ----
\* The members of the group become the empty set for the other datatypes.
get_choices_empty(self) ==
    [none |-> FALSE,
     rows |-> IF self.datatype = TYPE_ENUM
              THEN {ev \in EnumValueRows : ev.pk \in EnumGroupValues(self.enum_group)}
              ELSE {}]

\* Lines 294-303: the EnumValue rows of the group (self.enum_group.values.all())
\* or None.
get_choices(self) ==
    IF self.datatype = TYPE_ENUM
    THEN [none |-> FALSE,
          rows |-> {ev \in EnumValueRows : ev.pk \in EnumGroupValues(self.enum_group)}]
    ELSE [none |-> TRUE, rows |-> {}]

Attribute_get_choices(self) ==
    /\ \E a \in attrs : Stored(a) = self
    /\ attrCall' = [op |-> "get_choices", inst |-> self, value |-> NoValue,
                    kind |-> "ok", msgs |-> {},
                    ret |-> [NoRet EXCEPT !.choices = get_choices(self)]]
    /\ UNCHANGED <<attrs, valueVars, enforce, callVars, saving, dispatch>>

\* ------------------------------------------------------ specifications ----
SeedAttrs ==
    {[id |-> 1, name |-> "Height", slug |-> "height", datatype |-> TYPE_INT,
      enum_group |-> PyNone],
     [id |-> 2, name |-> "Fever", slug |-> "fever", datatype |-> TYPE_ENUM,
      enum_group |-> "ynu"]}

InitCalls ==
    /\ pc = [p \in Procs |-> "idle"]
    /\ frame = [p \in Procs |-> NoFrame]
    /\ result = [p \in Procs |-> "none"]
    /\ disturbed = [p \in Procs |-> FALSE]
    /\ attrCall = NoAttrCall
    /\ saving = [s \in Savers |-> NoSaving]
    /\ dispatch = [d \in DATATYPE_CHOICES |-> <<>>]
    /\ tails = [p \in Procs |-> "-"]
    /\ before = [p \in Procs |-> {}]

InitValues == values = {} /\ nextId = 1 /\ clock = 0

\* The store holds two attributes and no value; one caller.
Init == attrs = SeedAttrs /\ InitValues /\ InitCalls /\ enforce \in BOOLEAN

Next ==
    \/ \E a \in attrs, e \in Entities, v \in Values :
          save_value_get(Main, a.id, e, v) /\ UNCHANGED orderVars
    \/ save_value_create(Main) /\ UNCHANGED orderVars
    \/ save_value_act(Main) /\ UNCHANGED orderVars

Spec == Init /\ [][Next]_vars

\* One caller and a store whose save of a Value row may raise.
FailEntities == {[ct |-> "patient", pk |-> "1"], [ct |-> "doctor", pk |-> "u1"]}

NextFail ==
    \/ \E a \in attrs, e \in FailEntities, v \in ConcValues :
          save_value_get(Main, a.id, e, v) /\ UNCHANGED orderVars
    \/ save_value_create(Main) /\ UNCHANGED orderVars
    \/ save_value_act(Main) /\ UNCHANGED orderVars
    \/ save_value_act_error(Main) /\ UNCHANGED orderVars

SpecFail == Init /\ [][NextFail]_vars

\* Callers whose store operations interleave, on one host record.
NextConc ==
    \/ \E p \in Procs, a \in ConcAttrs, e \in ConcEntities, v \in ConcValues :
          save_value_get(p, a, e, v) /\ UNCHANGED orderVars
    \/ \E p \in Procs : save_value_create(p) /\ UNCHANGED orderVars
    \/ \E p \in Procs : save_value_act(p) /\ UNCHANGED orderVars

SpecConc == Init /\ [][NextConc]_vars

\* What a save_value call with this value leaves of its identity when it
\* runs alone: no row, or one row with the value.
Effect(value) == IF value \in {PyNone, ""} THEN "absent" ELSE value

\* The record of the order of calls, kept along a step of caller p: a call
\* that begins notes the callers whose last completed call has ended; a call
\* that completes becomes its caller's last completed call and takes the
\* place of the calls that ended before it began.
Order(p) ==
    LET began == pc[p] \in {"idle", "done", "failed"}
        preceded == IF began THEN {q \in Procs : tails[q] # "-"} ELSE before[p]
    IN  IF pc'[p] = "done"
        THEN /\ tails' = [q \in Procs |->
                            IF q = p THEN Effect(frame'[p].value)
                            ELSE IF q \in preceded THEN "-" ELSE tails[q]]
             /\ before' = [q \in Procs |-> IF q = p THEN {} ELSE before[q] \ {p}]
        ELSE /\ tails' = tails
             /\ before' = [before EXCEPT ![p] =
                              IF pc'[p] = "failed" THEN {} ELSE preceded]

\* Two callers write any value; the third only clears the attribute.
OrderValues(p) == IF p = "p3" THEN {PyNone} ELSE ConcValues

\* The interleaved callers with the order of their calls recorded.
NextOrder ==
    \/ \E p \in Procs, a \in ConcAttrs, e \in ConcEntities :
          \E v \in OrderValues(p) : save_value_get(p, a, e, v) /\ Order(p)
    \/ \E p \in Procs : save_value_create(p) /\ Order(p)
    \/ \E p \in Procs : save_value_act(p) /\ Order(p)

\* The store enforces the identity constraint.
InitOrder == attrs = SeedAttrs /\ InitValues /\ InitCalls /\ enforce = TRUE

SpecOrder == InitOrder /\ [][NextOrder]_vars

\* The empty store: one caller saves attributes, validates against them and
\* writes values, one call at a time.
InitAttr == attrs = {} /\ InitValues /\ InitCalls /\ enforce = TRUE

AttrEntities == {[ct |-> "patient", pk |-> "1"]}
AttrValues == {PyNone, "178"}

NextAttr ==
    \/ Quiet /\ UNCHANGED orderVars /\ \E inst \in Instances : Attribute_save(inst)
    \/ Quiet /\ UNCHANGED orderVars
          /\ \E a \in attrs, x \in XValues : Attribute_validate_value(Stored(a), x)
    \/ \E a \in attrs, e \in AttrEntities, v \in AttrValues :
          save_value_get(Main, a.id, e, v) /\ UNCHANGED orderVars
    \/ save_value_create(Main) /\ UNCHANGED orderVars
    \/ save_value_act(Main) /\ UNCHANGED orderVars

SpecAttr == InitAttr /\ [][NextAttr]_vars

\* A store with one attribute of every datatype, and a second enum attribute
\* whose group has no member yet.
CatalogueTypes ==
    <<TYPE_TEXT, TYPE_FLOAT, TYPE_INT, TYPE_DATE, TYPE_BOOLEAN, TYPE_OBJECT,
      TYPE_ENUM, TYPE_JSON, TYPE_CSV>>
Catalogue ==
    {[id |-> i, name |-> CatalogueTypes[i], slug |-> CatalogueTypes[i],
      datatype |-> CatalogueTypes[i],
      enum_group |-> IF CatalogueTypes[i] = TYPE_ENUM THEN "ynu" ELSE PyNone] :
        i \in 1..Len(CatalogueTypes)}
    \cup {[id |-> Len(CatalogueTypes) + 1, name |-> "Mood", slug |-> "mood",
           datatype |-> TYPE_ENUM, enum_group |-> "moods"]}

InitCatalogue == attrs = Catalogue /\ InitValues /\ InitCalls /\ enforce = TRUE

\* The attribute's read-only operations, applied to the catalogue.
NextCatalogue ==
    \/ \E a \in attrs : Attribute_get_choices(Stored(a)) /\ UNCHANGED orderVars
    \/ \E a \in attrs : Attribute_get_validators(Stored(a)) /\ UNCHANGED orderVars
    \/ \E a \in attrs, x \in XValues :
          Attribute_validate_value(Stored(a), x) /\ UNCHANGED orderVars

SpecCatalogue == InitCatalogue /\ [][NextCatalogue]_vars

\* The empty store and two savers whose Attribute.save calls interleave.
NextSave ==
    \/ \E s \in Savers, inst \in SaverInstances :
          Attribute_save_clean(s, inst) /\ UNCHANGED orderVars
    \/ \E s \in Savers : Attribute_save_write(s) /\ UNCHANGED orderVars

SpecSave == InitAttr /\ [][NextSave]_vars

\* ------------------------------------------------------------- claims ----
\* The Value rows of one identity (attribute, content type, primary key).
RowsIn(rows, a, e) ==
    {r \in rows :
        /\ r.attribute = a
        /\ r.entity_ct = e.ct
        /\ (r.entity_id = e.pk \/ r.entity_uuid = e.pk)}

RowsOf(a, e) == RowsIn(values, a, e)

NonEmpty(v) == v \notin {PyNone, ""}

\* C1: after any sequence of save_value calls (empty and non-empty values, any
\* attribute, any entity) the store holds at most one Value row per identity
\* (attribute, content type, primary key), with or without the store's
\* uniqueness constraint.
C1_AtMostOne ==
    \A a \in attrs, e \in Entities : Cardinality(RowsOf(a.id, e)) <= 1

\* Row 1 was created and saved twice by three calls on one identity, in a
\* store without the constraint.
C1_Witness ==
    /\ ~enforce
    /\ pc[Main] = "done"
    /\ \E r \in values : r.id = 1 /\ r.modified >= 3

\* C2: after a completed save_value(E, v) with v non-empty there is exactly
\* one Value row for (attribute, E) and its payload is v, whatever was stored
\* before.
C2_PostWrite ==
    (pc[Main] = "done" /\ NonEmpty(frame[Main].value)) =>
        \E r \in values :
            /\ RowsOf(frame[Main].attr, frame[Main].ent) = {r}
            /\ PyEq(r.value, frame[Main].value)

\* A write of "0" over a row that held another payload: row 1 was created,
\* saved and saved again.
C2_Witness ==
    /\ pc[Main] = "done"
    /\ frame[Main].value = "0"
    /\ \E r \in RowsOf(frame[Main].attr, frame[Main].ent) :
          r.id = 1 /\ r.modified = 3 /\ clock = 3

\* C3: a completed save_value(E, None) or save_value(E, "") leaves no Value
\* row for (attribute, E), whether or not one existed.
C3_EmptyWrite ==
    (pc[Main] = "done" /\ frame[Main].value \in {PyNone, ""}) =>
        RowsOf(frame[Main].attr, frame[Main].ent) = {}

\* An empty-string write that deleted the row an earlier call had stored.
C3_Witness ==
    /\ pc[Main] = "done"
    /\ frame[Main].value = ""
    /\ values = {}
    /\ clock = 3

\* C4: a save_value(E, v) with non-empty v right after a completed call with
\* the same arguments changes nothing in the store (no create, no save, no
\* delete, no timestamp) and ends with exactly one row holding v.
C4_Idempotent ==
    [][(frame'[Main].again = "repeat" /\ NonEmpty(frame'[Main].value)) =>
          /\ values' = values /\ clock' = clock /\ nextId' = nextId
          /\ pc'[Main] \in {"act", "done"}
          /\ pc'[Main] = "done" =>
                \E r \in values' :
                    /\ RowsIn(values', frame'[Main].attr, frame'[Main].ent) = {r}
                    /\ PyEq(r.value, frame'[Main].value)]_vars

\* The second of two equal non-empty calls has completed.
C4_Witness ==
    /\ pc[Main] = "done"
    /\ frame[Main].again = "repeat"
    /\ NonEmpty(frame[Main].value)

\* C5: two concurrent save_value calls for one identity never both observe
\* "not found" and both stand before the insert of line 332.
C5_NoDoubleInsert ==
    \A p \in Procs, q \in Procs :
        (p # q /\ pc[p] = "create" /\ pc[q] = "create") => ~SameIdentity(p, q)

\* The step is the caller's retry of its failed call: the same arguments.
IsRetry(p) == save_value_get(p, frame[p].attr, frame[p].ent, frame[p].value)

\* Under the constraint no identity has two rows, and an insert that meets a
\* row of its identity ends with IntegrityError and writes nothing.
C6_NoDuplicate ==
    /\ \A e \in ConcEntities, a \in attrs : Cardinality(RowsIn(values', a.id, e)) <= 1
    /\ \A p \in Procs :
          (save_value_create(p) /\ RowsOf(frame[p].attr, frame[p].ent) # {}) =>
              (LostRace(p)' /\ values' = values)

\* The retry's lookup finds the row.
C6_RetryFinds(p) == (LostRace(p) /\ IsRetry(p)) => pc'[p] = "act"

\* The retry does not fail.
C6_RetryCompletes(p) ==
    (pc[p] \in {"act", "create"} /\ frame[p].again = "retry"
        /\ (save_value_act(p) \/ save_value_create(p))) => pc'[p] # "failed"

\* C6 as stated: with the identity constraint enforced a lost insert race
\* ends with IntegrityError and no duplicate row, and the retry of the whole
\* call finds the row and completes.
C6_Original ==
    [][enforce =>
          /\ C6_NoDuplicate
          /\ \A p \in Procs : C6_RetryFinds(p) /\ C6_RetryCompletes(p)]_vars

\* C6 as amended: with the identity constraint enforced a lost insert race
\* ends with IntegrityError and no duplicate row; the retry finds the row and
\* completes provided no empty-value save_value deleted the identity's row
\* between the conflict and that step of the retry.
C6_LostRaceRetry ==
    [][enforce =>
          /\ C6_NoDuplicate
          /\ \A p \in Procs :
                ~disturbed[p] => (C6_RetryFinds(p) /\ C6_RetryCompletes(p))]_vars

\* A retry after a lost race found the row and completed.
C6_Witness ==
    \E p \in Procs :
        enforce /\ pc[p] = "done" /\ frame[p].again = "retry" /\ ~disturbed[p]

\* The labels of the members of an enum group.
MemberLabels(g) ==
    {ev.value : ev \in {e \in EnumValueRows : e.pk \in EnumGroupValues(g)}}

I1Messages == {MsgEnumNeedsGroup, MsgGroupOnlyEnum}

\* C7: every stored Attribute has enum_group set iff its datatype is ENUM; a
\* save with ENUM and no group, or with a group and another datatype, fails
\* with ValidationError, each with its own message; the two consistent
\* combinations pass the check.
C7_I1 ==
    /\ \A a \in attrs : (a.enum_group # PyNone) <=> (a.datatype = TYPE_ENUM)
    /\ attrCall.op = "save" =>
          LET inst == attrCall.inst
              isEnum == inst.datatype = TYPE_ENUM
              hasGroup == inst.enum_group # PyNone
          IN  /\ (isEnum /\ ~hasGroup) =>
                    /\ attrCall.kind = "ValidationError"
                    /\ attrCall.msgs \cap I1Messages = {MsgEnumNeedsGroup}
              /\ (~isEnum /\ hasGroup) =>
                    /\ attrCall.kind = "ValidationError"
                    /\ attrCall.msgs \cap I1Messages = {MsgGroupOnlyEnum}
              /\ (isEnum <=> hasGroup) => attrCall.msgs \cap I1Messages = {}

\* A save of a non-ENUM attribute with a group was rejected, attributes stored.
C7_Witness ==
    /\ attrCall.op = "save"
    /\ attrCall.kind = "ValidationError"
    /\ MsgGroupOnlyEnum \in attrCall.msgs
    /\ attrs # {}

\* C8: validate_value(x) on an enum attribute succeeds iff the label of x (x
\* itself, or the label of the EnumValue x refers to) is the value of a member
\* of the attribute's enum_group; otherwise it fails with ValidationError
\* naming the value and the attribute.
C8_EnumMembership ==
    (attrCall.op = "validate_value" /\ attrCall.inst.datatype = TYPE_ENUM) =>
        LET member == attrCall.value.value \in MemberLabels(attrCall.inst.enum_group)
        IN  /\ member <=> attrCall.kind = "ok"
            /\ ~member =>
                  /\ attrCall.kind = "ValidationError"
                  /\ attrCall.msgs =
                        {<<attrCall.value.value, " is not a valid choice for ",
                           attrCall.inst.name>>}

\* An EnumValue whose label is in the group was accepted.
C8_Witness ==
    /\ attrCall.op = "validate_value"
    /\ attrCall.inst.datatype = TYPE_ENUM
    /\ attrCall.value.kind = "EnumValue"
    /\ attrCall.kind = "ok"

\* Value rows reference the attribute.
InUse(pk) == \E r \in values : r.attribute = pk

C10_AllOrNothing ==
    [][(attrCall'.op = "save" /\ attrCall'.kind # "ok") => attrs' = attrs]_vars

\* A save was rejected for a slug collision with a stored attribute.
C10_Witness ==
    /\ attrCall.op = "save"
    /\ attrCall.kind # "ok"
    /\ MsgSlugExists \in attrCall.msgs
    /\ attrs # {}

\* The save is of an instance with a blank slug whose derived slug another
\* stored attribute has.
Collides(inst, rows) ==
    /\ inst.slug = ""
    /\ \E a \in rows : a.id # inst.pk /\ a.slug = generate_slug(inst.name)

\* C11 as stated: an Attribute.save with a blank slug whose derived slug
\* equals the slug of a stored Attribute, and with nothing else to reject,
\* stores nothing and ends with the store's conflict error, never with
\* ValidationError.
C11_Original ==
    [][\A s \in Savers :
          (saving'[s] # saving[s] /\ Collides(saving'[s].inst, attrs)) =>
              /\ attrs' = attrs
              /\ saving'[s].kind # "ok"
              /\ (saving'[s].pc = "done" /\ saving'[s].msgs \subseteq {MsgSlugExists}) =>
                    saving'[s].kind = "IntegrityError"]_vars

\* C11 as amended: the save stores nothing and no suffixed slug; when the
\* colliding slug is stored as full_clean runs the save ends with
\* ValidationError carrying the slug message; when it is stored between
\* full_clean and the write the save ends with IntegrityError; a blank-slug
\* save that succeeds stores the derived slug itself.
C11_SlugCollision ==
    [][\A s \in Savers :
          /\ (saving'[s] # saving[s] /\ Collides(saving'[s].inst, attrs)) =>
                /\ attrs' = attrs
                /\ saving'[s].pc = "done"
                /\ saving[s].pc # "cleaned" =>
                      /\ saving'[s].kind = "ValidationError"
                      /\ MsgSlugExists \in saving'[s].msgs
                /\ saving[s].pc = "cleaned" => saving'[s].kind = "IntegrityError"
          /\ (saving'[s] # saving[s] /\ saving'[s].kind = "ok"
                 /\ saving'[s].inst.slug = "") =>
                \E a \in attrs' :
                    /\ a.name = saving'[s].inst.name
                    /\ a.slug = generate_slug(saving'[s].inst.name)]_vars

\* A blank-slug save of "Height" was rejected by full_clean while another
\* attribute held the slug "height".
C11_Witness ==
    \E s \in Savers :
        /\ saving[s].pc = "done"
        /\ saving[s].inst.slug = ""
        /\ saving[s].kind = "ValidationError"
        /\ saving[s].msgs = {MsgSlugExists}
        /\ \E a \in attrs : a.id # saving[s].inst.pk /\ a.slug = "height"

\* C12: get_choices returns the set of the EnumValue rows of enum_group,
\* possibly empty, when the datatype is ENUM, and None, which is not the empty
\* set, for each of the eight other datatypes.
C12_GetChoices ==
    attrCall.op = "get_choices" =>
        LET self == attrCall.inst
            choices == attrCall.ret.choices
        IN  /\ self.datatype = TYPE_ENUM =>
                  /\ ~choices.none
                  /\ {ev.value : ev \in choices.rows} = MemberLabels(self.enum_group)
                  /\ \A ev \in choices.rows : ev \in EnumValueRows
            /\ self.datatype \in DATATYPE_CHOICES \ {TYPE_ENUM} => choices.none

\* get_choices of the enum attribute whose group has no member returned the
\* empty set, not None.
C12_Witness ==
    /\ attrCall.op = "get_choices"
    /\ attrCall.inst.datatype = TYPE_ENUM
    /\ attrCall.inst.enum_group = "moods"
    /\ ~attrCall.ret.choices.none
    /\ attrCall.ret.choices.rows = {}

\* The datatypes get_validators has been asked about.
Dispatched == {d \in DATATYPE_CHOICES : dispatch[d] # <<>>}

\* C16: for each of the nine datatypes get_validators returns a list of
\* exactly one validator, no two datatypes get the same validator,
\* validate_value invokes exactly the validator get_validators returns for the
\* attribute's datatype, and the enum-group membership check runs only for an
\* ENUM attribute.
C16_Dispatch ==
    /\ \A d \in Dispatched : Len(dispatch[d]) = 1
    /\ \A d1 \in Dispatched, d2 \in Dispatched :
          d1 # d2 => dispatch[d1][1] # dispatch[d2][1]
    /\ attrCall.op = "get_validators" =>
          /\ attrCall.inst.datatype \in Dispatched
          /\ attrCall.ret.validators = dispatch[attrCall.inst.datatype]
    /\ attrCall.op = "validate_value" =>
          /\ Len(attrCall.ret.ran) = 1
          /\ attrCall.inst.datatype \in Dispatched =>
                attrCall.ret.ran = dispatch[attrCall.inst.datatype]
          /\ attrCall.ret.checked => attrCall.inst.datatype = TYPE_ENUM
          /\ (attrCall.inst.datatype = TYPE_ENUM /\ attrCall.kind = "ok") =>
                attrCall.ret.checked

\* get_validators has answered for all nine datatypes and validate_value then
\* accepted a value for a csv attribute without the membership check.
C16_Witness ==
    /\ Dispatched = DATATYPE_CHOICES
    /\ attrCall.op = "validate_value"
    /\ attrCall.inst.datatype = TYPE_CSV
    /\ attrCall.kind = "ok"
    /\ attrCall.ret.ran = dispatch[TYPE_CSV]
    /\ ~attrCall.ret.checked

\* C13: in every reachable state of the store, the states between the store
\* operations of a save_value call included, every Value row has a payload
\* that is neither None nor ''.
C13_NoEmptyRows == \A r \in values : NonEmpty(r.value)

\* C14: a save_value call that fails after it inserted a row leaves no row
\* behind: the row it inserted is not in the store.
C14_FailureLeavesNoRow ==
    \A p \in Procs :
        (pc[p] = "failed" /\ frame[p].created # 0) =>
            \A r \in values : r.id # frame[p].created

\* The falsy payloads that are not empty.
Falsy == {"0", "False"}

\* C15: a save_value call with 0 or False never deletes a row, goes on to
\* the insert when its lookup finds no row, and when it completes leaves
\* exactly one row of the identity, holding that value.
C15_FalsyNotEmpty ==
    [][frame'[Main].value \in Falsy =>
          /\ \A r \in values : \E t \in values' : t.id = r.id
          /\ (/\ pc[Main] \notin {"create", "act"}
              /\ RowsIn(values, frame'[Main].attr, frame'[Main].ent) = {}) =>
                pc'[Main] = "create"
          /\ pc'[Main] = "done" =>
                \E r \in values' :
                    /\ RowsIn(values', frame'[Main].attr, frame'[Main].ent) = {r}
                    /\ r.value \in Falsy
                    /\ PyEq(r.value, frame'[Main].value)]_vars

\* A call with False found no row, inserted one and stored False in it.
C15_Witness ==
    /\ pc[Main] = "done"
    /\ frame[Main].value = "False"
    /\ \E r \in RowsOf(frame[Main].attr, frame[Main].ent) :
          r.value = "False" /\ r.modified = clock

\* The identity of a Value row is another than the call's.
OtherIdentity(r, a, e) ==
    \/ r.attribute # a
    \/ r.entity_ct # e.ct
    \/ (r.entity_id # e.pk /\ r.entity_uuid # e.pk)

\* C17: no step of save_value(E, v) on attribute A inserts, changes or
\* deletes a Value row whose identity differs from (A, content type of E,
\* E.pk), and none changes an Attribute row.
C17_Frame ==
    [][/\ attrs' = attrs
       /\ \A r \in values \cup values' :
             OtherIdentity(r, frame'[Main].attr, frame'[Main].ent) =>
                 (r \in values /\ r \in values')]_vars

\* A call wrote the row of its identity while the row of an identity that
\* differs in the content type alone stayed as it was.
C17_Witness ==
    /\ pc[Main] = "done"
    /\ \E r \in RowsOf(frame[Main].attr, frame[Main].ent) : r.modified = clock
    /\ \E r \in values :
          /\ r.attribute = frame[Main].attr
          /\ r.entity_ct # frame[Main].ent.ct
          /\ frame[Main].ent.pk \in {r.entity_id, r.entity_uuid}

\* The outcomes of the completed calls that no completed call followed: the
\* calls that can stand last in a sequential order of the completed calls
\* that keeps the order of non-overlapping calls.
LastOutcomes == {tails[q] : q \in Procs} \ {"-"}

\* C18: with the identity constraint enforced and no call in flight, the
\* identity holds what some sequential order of the calls that completed
\* without error leaves, an order that keeps every call that ended before
\* another began ahead of it: no row or one row with the value of a call
\* that can stand last, and no row when no call completed.
C18_Linearizable ==
    (enforce /\ Quiet) =>
        \A a \in ConcAttrs, e \in ConcEntities :
            IF LastOutcomes = {}
            THEN RowsOf(a, e) = {}
            ELSE \/ RowsOf(a, e) = {} /\ "absent" \in LastOutcomes
                 \/ \E r \in values : RowsOf(a, e) = {r} /\ r.value \in LastOutcomes

\* Three calls that overlapped have completed: one deleted the row, two wrote
\* different values, and the row holds one of them.
C18_Witness ==
    /\ enforce
    /\ Quiet
    /\ LastOutcomes = {"absent", "0", "178"}
    /\ \E r \in values : r.value = "178"

====
